---- MODULE Spec2Model ----
(***************************************************************************)
(* Model of financial_metrics_updater.py: the refresh cycle of             *)
(* FinancialMetricsUpdater (candidate selection, per-ticker fetch, error   *)
(* classification, batched writes to the "Financial Metrics" sheet and     *)
(* the "Blacklist" sheet).                                                 *)
(*                                                                         *)
(* Python values: None is <<>>, a present value v is <<v>>.  A Python str  *)
(* that the program searches or builds (an exception text, the Error       *)
(* cell) is a sequence of tokens; the digits of "429" are the one-letter   *)
(* tokens "4","2","9", so that '429' in str(e) is a real substring search. *)
(* Cells the program parses (active, timestamps, failures, status) are     *)
(* TLA+ strings.  A float quotient a/b is the pair <<a, b>>.               *)
(***************************************************************************)
EXTENDS Integers, Sequences, FiniteSets, TLC

VARIABLES
    sheet,              \* 'Financial Metrics' values: sheet[1] is the header row
    blacklist,          \* 'Blacklist' values, one row per entry
    now,                \* the clock, in ticks
    pc,                 \* where the process is
    candidates,         \* process_updates: candidates
    i,                  \* process_updates: start of the current batch (0-based)
    k,                  \* get_metrics_batch: position of the next ticker (1-based)
    successful_results, \* get_metrics_batch: dict ticker -> metrics
    failed_results,     \* get_metrics_batch: dict ticker -> {'error': str}
    hit_rate_limit,     \* what get_metrics_batch returned as third value
    cycle,              \* number of runs of the process started so far
    fetchLog,           \* history: the fetches of the current run, in order
    writeLog,           \* history: the cell writes of the current run, in order
    permanentBefore,    \* history: rows whose fetch failed validation in an earlier run
    fetches,            \* history: provider lookups made so far, over all runs
    batch_size,         \* process_updates: the parameter batch_size
    arg,                \* a method examined on its own: the argument it is called with
    ret                 \* a method examined on its own: what it returned

vars == <<sheet, blacklist, now, pc, candidates, i, k, successful_results,
          failed_results, hit_rate_limit, cycle, fetchLog, writeLog, permanentBefore,
          fetches, batch_size, arg, ret>>

-----------------------------------------------------------------------------
(* Bounds of the model *)

MaxRows == 3        \* data rows of the sheet in Spec
MaxSelRows == 3     \* data rows of the sheet in SpecSelect
MaxCycles == 2      \* runs of the process in one behaviour
MaxTime == 9        \* timestamps the sheet can hold are 0..MaxTime
MaxFetches == 4     \* provider lookups in one behaviour
BatchSize == 3      \* largest batch_size tried: 50 in __main__, small here

(* Program constants *)

MaxFailures == 5    \* failures < 5
MinColumns == 7     \* len(row) < 7
Day == 2            \* timedelta(days=1), in ticks

-----------------------------------------------------------------------------
(* Python values *)

None == <<>>
Some(v) == <<v>>
IsNone(x) == x = <<>>
Val(x) == x[1]

Min(a, b) == IF a < b THEN a ELSE b

\* str.lower() on the strings an active cell holds here
lower(s) ==
    CASE s = "TRUE" -> "true"
      [] s = "True" -> "true"
      [] s = "FALSE" -> "false"
      [] s = "False" -> "false"
      [] OTHER -> s

\* str.strip() on the strings a cell holds here
strip(s) ==
    CASE s = " " -> ""
      [] s = " 3" -> "3"
      [] OTHER -> s

\* datetime.strftime('%Y-%m-%d %H:%M:%S') of the tick t
strftime(t) == ToString(t)

\* datetime.strptime(s, '%Y-%m-%d %H:%M:%S'): Some(tick), or None for ValueError
strptime(s) ==
    IF \E t \in 0..MaxTime : strftime(t) = s
    THEN Some(CHOOSE t \in 0..MaxTime : strftime(t) = s)
    ELSE None

\* int(s): Some(n), or None for ValueError; int() ignores surrounding blanks
int(s) ==
    IF \E n \in -1..(MaxFailures + MaxCycles + 1) : ToString(n) = strip(s)
    THEN Some(CHOOSE n \in -1..(MaxFailures + MaxCycles + 1) : ToString(n) = strip(s))
    ELSE None

-----------------------------------------------------------------------------
(* Candidate selection: get_stocks_to_update *)

\* columns of 'Financial Metrics' (1-based; the code's row[n] is column n+1)
ColTicker == 1
ColActive == 2
ColLastUpdated == 3
ColLastAttempt == 4
ColFailures == 5
ColError == 6
ColStatus == 7

\* ParseRow as it would be with the test of the active flag left out
ParseRow_IgnoresActive(row, one_day_ago) ==
    LET hasLU == row[ColLastUpdated] # "" /\ strip(row[ColLastUpdated]) # ""
        last_updated == IF hasLU THEN strptime(row[ColLastUpdated]) ELSE None
        hasF == row[ColFailures] # "" /\ strip(row[ColFailures]) # ""
        parsedF == IF hasF THEN int(row[ColFailures]) ELSE Some(0)
        status == IF Len(row) > 6 /\ row[ColStatus] # "" THEN row[ColStatus] ELSE "pending"
        raised == (hasLU /\ IsNone(last_updated)) \/ IsNone(parsedF)
    IN  [raised |-> raised,
         failures |-> IF raised THEN 0 ELSE Val(parsedF),
         selected |-> /\ ~raised
                      /\ Val(parsedF) < MaxFailures
                      /\ \/ status = "pending"
                         \/ IsNone(last_updated)
                         \/ Val(last_updated) < one_day_ago]

\* ParseRow as it would be with a record updated exactly a day ago taken as due
ParseRow_DueAfterADay(row, one_day_ago) ==
    LET active == lower(row[ColActive]) = "true"
        hasLU == row[ColLastUpdated] # "" /\ strip(row[ColLastUpdated]) # ""
        last_updated == IF hasLU THEN strptime(row[ColLastUpdated]) ELSE None
        hasF == row[ColFailures] # "" /\ strip(row[ColFailures]) # ""
        parsedF == IF hasF THEN int(row[ColFailures]) ELSE Some(0)
        status == IF Len(row) > 6 /\ row[ColStatus] # "" THEN row[ColStatus] ELSE "pending"
        raised == (hasLU /\ IsNone(last_updated)) \/ IsNone(parsedF)
    IN  [raised |-> raised,
         failures |-> IF raised THEN 0 ELSE Val(parsedF),
         selected |-> /\ ~raised
                      /\ active
                      /\ Val(parsedF) < MaxFailures
                      /\ \/ status = "pending"
                         \/ IsNone(last_updated)
                         \/ Val(last_updated) <= one_day_ago]

\* the try block of the loop body for one row with len(row) >= 7:
\* [raised |-> a ValueError was raised, selected |-> the if holds, failures |-> int]
ParseRow(row, one_day_ago) ==
    LET active == lower(row[ColActive]) = "true"
        hasLU == row[ColLastUpdated] # "" /\ strip(row[ColLastUpdated]) # ""
        last_updated == IF hasLU THEN strptime(row[ColLastUpdated]) ELSE None
        hasF == row[ColFailures] # "" /\ strip(row[ColFailures]) # ""
        parsedF == IF hasF THEN int(row[ColFailures]) ELSE Some(0)
        status == IF Len(row) > 6 /\ row[ColStatus] # "" THEN row[ColStatus] ELSE "pending"
        raised == (hasLU /\ IsNone(last_updated)) \/ IsNone(parsedF)
    IN  [raised |-> raised,
         failures |-> IF raised THEN 0 ELSE Val(parsedF),
         selected |-> /\ ~raised
                      /\ active
                      /\ Val(parsedF) < MaxFailures
                      /\ \/ status = "pending"
                         \/ IsNone(last_updated)
                         \/ Val(last_updated) < one_day_ago]

\* the candidates list before sorting, for rows idx..len(metrics_data)
RECURSIVE ScanRows(_, _, _)
ScanRows(metrics_data, idx, one_day_ago) ==
    IF idx > Len(metrics_data) THEN <<>>
    ELSE LET row == metrics_data[idx]
             p == ParseRow(row, one_day_ago)
             here == IF Len(row) < MinColumns THEN <<>>
                     ELSE IF p.selected
                          THEN <<[ticker |-> row[ColTicker], rowIndex |-> idx,
                                  failures |-> p.failures]>>
                          ELSE <<>>
         IN  here \o ScanRows(metrics_data, idx + 1, one_day_ago)

\* InsertByFailures as an unstable sort would do it: x goes before its equals
RECURSIVE InsertByFailures_BeforeEquals(_, _)
InsertByFailures_BeforeEquals(x, s) ==
    IF s = <<>> THEN <<x>>
    ELSE IF s[Len(s)].failures < x.failures THEN Append(s, x)
    ELSE Append(InsertByFailures_BeforeEquals(x, SubSeq(s, 1, Len(s) - 1)), s[Len(s)])

\* insertion of x behind every element whose key is <= its key
RECURSIVE InsertByFailures(_, _)
InsertByFailures(x, s) ==
    IF s = <<>> THEN <<x>>
    ELSE IF s[Len(s)].failures <= x.failures THEN Append(s, x)
    ELSE Append(InsertByFailures(x, SubSeq(s, 1, Len(s) - 1)), s[Len(s)])

\* sorted(candidates, key=lambda x: x['failures']): ascending and stable
RECURSIVE sorted(_)
sorted(s) ==
    IF s = <<>> THEN <<>>
    ELSE InsertByFailures(s[Len(s)], sorted(SubSeq(s, 1, Len(s) - 1)))

get_stocks_to_update(metrics_data, t) ==
    sorted(ScanRows(metrics_data, 2, t - Day))

-----------------------------------------------------------------------------
(* Errors and their classification *)

\* An exception object e, by what the code asks of it:
\*   isHTTPError  isinstance(e, HTTPError)
\*   response     e.response.status_code, None when e.response is None
\*   status_code  e.status_code, None when hasattr(e, 'status_code') is false
\*   text         str(e)
Error(isHTTP, response, status_code, text) ==
    [isHTTPError |-> isHTTP, response |-> response, status_code |-> status_code,
     text |-> text]

\* raise Exception(msg)
Exception(msg) == Error(FALSE, None, None, msg)

\* str(e)
str(e) == e.text

\* a str object handed to code that expects an exception: not an HTTPError,
\* no status_code attribute, and str() of it is itself
StrObject(s) == Error(FALSE, None, None, s)

\* '429' in s
Contains429(s) ==
    \E j \in 1..(Len(s) - 2) : s[j] = "4" /\ s[j + 1] = "2" /\ s[j + 2] = "9"

temporary_error_codes == {429, 500, 502, 503, 504}

_check_rate_limit(error) ==
    \/ error.isHTTPError /\ error.response = Some(429)
    \/ Contains429(str(error))

\* should_blacklist as it would be without the rate-limit check of line 68
should_blacklist_NoRateLimitCheck(error) ==
    IF ~IsNone(error.status_code)
    THEN Val(error.status_code) \notin temporary_error_codes
    ELSE TRUE

should_blacklist(error) ==
    IF _check_rate_limit(error) THEN FALSE
    ELSE IF ~IsNone(error.status_code)
         THEN Val(error.status_code) \notin temporary_error_codes
         ELSE TRUE

-----------------------------------------------------------------------------
(* The fetch of one ticker: the body of the loop of get_metrics_batch *)

required_metrics ==
    <<"fcf_yield", "roe", "pb", "current_ratio", "debt_equity", "net_margin",
      "roa", "revenue_growth", "ev_ebitda", "quick_ratio", "fair_value">>

\* Python truthiness of an optional number: None and 0 are false
Truthy(x) == ~IsNone(x) /\ Val(x) # 0

\* a or b
Or(a, b) == IF Truthy(a) THEN a ELSE b

\* f"{x}" of an optional str
Fmt(x) == IF IsNone(x) THEN <<"None">> ELSE Val(x)

\* ', '.join(names)
RECURSIVE Join(_)
Join(names) ==
    IF names = <<>> THEN <<>>
    ELSE IF Len(names) = 1 THEN <<names[1]>>
    ELSE <<names[1], ", ">> \o Join(Tail(names))

\* lines 232-248: None when the info is eligible, else Some(message)
Validate(info) ==
    IF info.quoteType # Some(<<"EQUITY">>)
    THEN Some(<<"Not an equity security. Quote type: ">> \o Fmt(info.quoteType))
    ELSE IF info.currency # Some(<<"USD">>)
    THEN Some(<<"Trading currency is not USD: ">> \o Fmt(info.currency))
    ELSE IF ~IsNone(info.financialCurrency) /\ info.financialCurrency # Some(<<"USD">>)
    THEN Some(<<"Financial reporting currency is not USD: ">> \o Fmt(info.financialCurrency))
    ELSE IF info.country \notin {Some(<<"US">>), Some(<<"USA">>), Some(<<"United States">>)}
    THEN Some(<<"Company not based in US: ">> \o Fmt(info.country))
    ELSE None

\* the or-chain as it would be with `is not None` tests: the first present value
CurrentPrice_FirstPresent(info) ==
    IF ~IsNone(info.currentPrice) THEN info.currentPrice
    ELSE IF ~IsNone(info.regularMarketPrice) THEN info.regularMarketPrice
    ELSE IF ~IsNone(info.previousClose) THEN info.previousClose
    ELSE IF ~IsNone(info.open) THEN info.open
    ELSE info.fiftyDayAverage

\* lines 253-259
CurrentPrice(info) ==
    Or(info.currentPrice, Or(info.regularMarketPrice, Or(info.previousClose,
       Or(info.open, info.fiftyDayAverage))))

\* lines 273-284; the float a/b is the pair <<a, b>>
FairValue(info) ==
    LET current_price == CurrentPrice(info)
        evebitda == info.enterpriseToEbitda
        peg == info.trailingPegRatio
    IN  IF Truthy(current_price) /\ Truthy(evebitda)
        THEN IF Truthy(peg)
             THEN Some(<<45 * Val(current_price) * Val(peg)
                           + 4 * Val(current_price) * Val(evebitda),
                         5 * Val(evebitda) * Val(peg)>>)
             ELSE Some(<<15 * Val(current_price), Val(evebitda)>>)
        ELSE None

\* lines 250-284: the metrics dict
ComputeMetrics(info) ==
    [fcf_yield |-> IF Truthy(info.freeCashflow) /\ Truthy(info.marketCap)
                   THEN Some(<<Val(info.freeCashflow), Val(info.marketCap)>>)
                   ELSE None,
     roe |-> info.returnOnEquity,
     pb |-> info.priceToBook,
     current_ratio |-> info.currentRatio,
     debt_equity |-> info.debtToEquity,
     net_margin |-> info.profitMargins,
     roa |-> info.returnOnAssets,
     revenue_growth |-> info.revenueGrowth,
     ev_ebitda |-> info.enterpriseToEbitda,
     quick_ratio |-> info.quickRatio,
     fair_value |-> FairValue(info)]

\* line 289
RECURSIVE MissingFrom(_, _)
MissingFrom(metrics, names) ==
    IF names = <<>> THEN <<>>
    ELSE (IF IsNone(metrics[names[1]]) THEN <<names[1]>> ELSE <<>>)
         \o MissingFrom(metrics, Tail(names))

missing_metrics(metrics) == MissingFrom(metrics, required_metrics)

\* metrics = {}
NoMetrics == [m \in {required_metrics[j] : j \in 1..Len(required_metrics)} |-> None]

\* What the provider does for one ticker:
\*   kind "info":      stock.info returns resp.info
\*   kind "raise":     resp.error is raised, at yf.Ticker(ticker) (site "Ticker")
\*                     or at stock.info (site "info")
\* and what one pass of the loop body makes of it:
\*   out "success"  successful_results[ticker] = metrics      (line 293)
\*   out "failed"   failed_results[ticker] = {'error': error} (line 300)
\*   out "return"   return ..., True                          (line 228)
\*   out "break"    hit_rate_limit = True; break              (lines 298-299)
FetchOne(resp) ==
    LET metrics == ComputeMetrics(resp.info)
        missing == missing_metrics(metrics)
        invalid == Validate(resp.info)
        \* the exception that reaches the handler of line 295, if any
        e == IF resp.kind = "raise" THEN resp.error
             ELSE IF ~IsNone(invalid) THEN Exception(Val(invalid))
             ELSE Exception(<<"Missing required metrics: ">> \o Join(missing))
        raised == resp.kind = "raise" \/ ~IsNone(invalid) \/ missing # <<>>
    IN  IF /\ resp.kind = "raise"
           /\ resp.site = "info"
           /\ resp.error.isHTTPError
           /\ resp.error.response = Some(429)
        THEN [out |-> "return", metrics |-> NoMetrics, error |-> <<>>]
        ELSE IF ~raised
        THEN [out |-> "success", metrics |-> metrics, error |-> <<>>]
        ELSE IF _check_rate_limit(e)
        THEN [out |-> "break", metrics |-> NoMetrics, error |-> <<>>]
        ELSE [out |-> "failed", metrics |-> NoMetrics, error |-> str(e)]

-----------------------------------------------------------------------------
(* The batch writer: values().batchUpdate with valueInputOption USER_ENTERED *)

Max(a, b) == IF a > b THEN a ELSE b

\* a str as the sheet holds it: '' is the empty cell
StrCell(tokens) == IF tokens = <<>> THEN "" ELSE ToString(tokens)

\* one entry of data: the cells col.. of row r take vals; a None (JSON null) in
\* vals leaves its cell as it is; a row too short is padded with empty cells
SetRange(values, r, col, vals) ==
    LET row == values[r]
        n == Max(Len(row), col + Len(vals) - 1)
    IN  [values EXCEPT ![r] =
            [j \in 1..n |->
                IF j >= col /\ j < col + Len(vals) /\ ~IsNone(vals[j - col + 1])
                THEN Val(vals[j - col + 1])
                ELSE IF j <= Len(row) THEN row[j] ELSE ""]]

\* body = {'data': data}: the entries are applied in order
RECURSIVE batchUpdate(_, _)
batchUpdate(values, data) ==
    IF data = <<>> THEN values
    ELSE batchUpdate(SetRange(values, data[1].row, data[1].col, data[1].vals),
                     Tail(data))

MetricCell(v) == IF IsNone(v) THEN None ELSE Some(ToString(Val(v)))

\* update_metrics_batch: the data list
MetricsData(updates, timestamp) ==
    [j \in 1..Len(updates) |->
        [row |-> updates[j].rowIndex, col |-> ColLastUpdated,
         vals |-> <<Some(timestamp), Some(timestamp), Some(ToString(0)), Some(""),
                    Some("complete")>>
                  \o [m \in 1..Len(required_metrics) |->
                        MetricCell(updates[j].metrics[required_metrics[m]])]]]

update_metrics_batch(values, updates, timestamp) ==
    batchUpdate(values, MetricsData(updates, timestamp))

\* the data list as it would be with the timestamp in the Last Updated slot too
FailuresData_StampsLastUpdated(failed_updates, timestamp) ==
    [j \in 1..Len(failed_updates) |->
        [row |-> failed_updates[j].rowIndex, col |-> ColLastUpdated,
         vals |-> <<Some(timestamp), Some(timestamp),
                    Some(ToString(failed_updates[j].failures + 1)),
                    Some(StrCell(failed_updates[j].error)), Some("failed")>>]]

\* update_failures_batch: the data list
FailuresData(failed_updates, timestamp) ==
    [j \in 1..Len(failed_updates) |->
        [row |-> failed_updates[j].rowIndex, col |-> ColLastUpdated,
         vals |-> <<None, Some(timestamp), Some(ToString(failed_updates[j].failures + 1)),
                    Some(StrCell(failed_updates[j].error)), Some("failed")>>]]

update_failures_batch(values, failed_updates, timestamp) ==
    batchUpdate(values, FailuresData(failed_updates, timestamp))

\* update_active_status: the data list
ActiveData(blacklist_updates) ==
    [j \in 1..Len(blacklist_updates) |->
        [row |-> blacklist_updates[j].rowIndex, col |-> ColActive,
         vals |-> <<Some("FALSE")>>]]

update_active_status(values, blacklist_updates) ==
    batchUpdate(values, ActiveData(blacklist_updates))

\* the data list as it would be with the incremented count in the entry
BlacklistData_CountsThisFailure(existing_data, blacklist_updates, timestamp) ==
    [j \in 1..Len(blacklist_updates) |->
        [row |-> Len(existing_data) + j, col |-> 1,
         vals |-> <<Some(blacklist_updates[j].ticker), Some(timestamp),
                    Some(StrCell(blacklist_updates[j].error)),
                    Some(ToString(blacklist_updates[j].failures + 1))>>]]

\* the data list as it would be with next_row = len(existing_data)
BlacklistData_FromLastRow(existing_data, blacklist_updates, timestamp) ==
    [j \in 1..Len(blacklist_updates) |->
        [row |-> Len(existing_data) + j - 1, col |-> 1,
         vals |-> <<Some(blacklist_updates[j].ticker), Some(timestamp),
                    Some(StrCell(blacklist_updates[j].error)),
                    Some(ToString(blacklist_updates[j].failures))>>]]

\* update_blacklist_sheet: entry j goes to row len(existing_data) + j of 'Blacklist'
BlacklistData(existing_data, blacklist_updates, timestamp) ==
    [j \in 1..Len(blacklist_updates) |->
        [row |-> Len(existing_data) + j, col |-> 1,
         vals |-> <<Some(blacklist_updates[j].ticker), Some(timestamp),
                    Some(StrCell(blacklist_updates[j].error)),
                    Some(ToString(blacklist_updates[j].failures))>>]]

\* a sheet grown to hold row r
GrowTo(values, r) ==
    [j \in 1..Max(Len(values), r) |-> IF j <= Len(values) THEN values[j] ELSE <<>>]

update_blacklist_sheet(existing_data, blacklist_updates, timestamp) ==
    batchUpdate(GrowTo(existing_data, Len(existing_data) + Len(blacklist_updates)),
                BlacklistData(existing_data, blacklist_updates, timestamp))

-----------------------------------------------------------------------------
(* process_updates: what one batch makes of the results of get_metrics_batch *)

\* the batch as it would be with the slice left open: candidates[i:]
Batch_RestOfList(cands, start) == SubSeq(cands, start + 1, Len(cands))

\* candidates[i:i + batch_size]
Batch(cands, start) == SubSeq(cands, start + 1, Min(start + batch_size, Len(cands)))

\* lines 317-324
RECURSIVE SuccessfulUpdates(_, _)
SuccessfulUpdates(batch, results) ==
    IF batch = <<>> THEN <<>>
    ELSE (IF batch[1].ticker \in DOMAIN results
          THEN <<[rowIndex |-> batch[1].rowIndex, metrics |-> results[batch[1].ticker]]>>
          ELSE <<>>)
         \o SuccessfulUpdates(Tail(batch), results)

\* lines 329-337: the update dict of every stock of the batch found in failed_results
RECURSIVE FailedUpdates(_, _)
FailedUpdates(batch, failed) ==
    IF batch = <<>> THEN <<>>
    ELSE (IF batch[1].ticker \in DOMAIN failed
          THEN <<[rowIndex |-> batch[1].rowIndex, failures |-> batch[1].failures,
                  error |-> failed[batch[1].ticker].error, ticker |-> batch[1].ticker]>>
          ELSE <<>>)
         \o FailedUpdates(Tail(batch), failed)

\* lines 338-339: should_blacklist is handed failed_results[...]['error'], a str
RECURSIVE BlacklistUpdates(_)
BlacklistUpdates(failed_updates) ==
    IF failed_updates = <<>> THEN <<>>
    ELSE (IF should_blacklist(StrObject(failed_updates[1].error))
          THEN <<failed_updates[1]>> ELSE <<>>)
         \o BlacklistUpdates(Tail(failed_updates))

\* lines 343-349 on 'Financial Metrics'
FlushSheet(values, succ, failed, black, timestamp) ==
    LET v1 == IF succ # <<>> THEN update_metrics_batch(values, succ, timestamp) ELSE values
        v2 == IF failed # <<>> THEN update_failures_batch(v1, failed, timestamp) ELSE v1
    IN  IF black # <<>> THEN update_active_status(v2, black) ELSE v2

\* lines 347-349 on 'Blacklist'
FlushBlacklist(existing_data, black, timestamp) ==
    IF black # <<>> THEN update_blacklist_sheet(existing_data, black, timestamp)
    ELSE existing_data

\* history: the writes of one flush, in the order they are issued; prev is the
\* row's failures cell before the flush, old is that cell when the write is issued,
\* before and after are the row as the metrics or failures write found and left it
CellOf(values, r, col) == IF col <= Len(values[r]) THEN values[r][col] ELSE ""

WritesOf(values, succ, failed, black, timestamp) ==
    LET v1 == IF succ # <<>> THEN update_metrics_batch(values, succ, timestamp) ELSE values
        v2 == IF failed # <<>> THEN update_failures_batch(v1, failed, timestamp) ELSE v1
    IN  [j \in 1..Len(succ) |->
            [op |-> "metrics", row |-> succ[j].rowIndex,
             prev |-> CellOf(values, succ[j].rowIndex, ColFailures),
             old |-> CellOf(values, succ[j].rowIndex, ColFailures), new |-> ToString(0),
             before |-> values[succ[j].rowIndex], after |-> v1[succ[j].rowIndex]]]
        \o [j \in 1..Len(failed) |->
            [op |-> "failures", row |-> failed[j].rowIndex,
             prev |-> CellOf(values, failed[j].rowIndex, ColFailures),
             old |-> CellOf(v1, failed[j].rowIndex, ColFailures),
             new |-> ToString(failed[j].failures + 1),
             before |-> v1[failed[j].rowIndex], after |-> v2[failed[j].rowIndex]]]
        \o [j \in 1..Len(black) |->
            [op |-> "active", row |-> black[j].rowIndex, prev |-> "", old |-> "",
             new |-> "", before |-> <<>>, after |-> <<>>]]
        \o [j \in 1..Len(black) |->
            [op |-> "blacklist", row |-> black[j].rowIndex, prev |-> "", old |-> "",
             new |-> "", before |-> <<>>, after |-> <<>>]]

-----------------------------------------------------------------------------
(* What the provider answers in this model *)

GoodInfo ==
    [quoteType |-> Some(<<"EQUITY">>), currency |-> Some(<<"USD">>),
     financialCurrency |-> Some(<<"USD">>), country |-> Some(<<"US">>),
     freeCashflow |-> Some(3), marketCap |-> Some(7),
     currentPrice |-> Some(2), regularMarketPrice |-> Some(2),
     previousClose |-> Some(2), open |-> Some(2), fiftyDayAverage |-> Some(2),
     returnOnEquity |-> Some(1), priceToBook |-> Some(1), currentRatio |-> Some(1),
     debtToEquity |-> Some(1), profitMargins |-> Some(1), returnOnAssets |-> Some(1),
     revenueGrowth |-> Some(1), enterpriseToEbitda |-> Some(5), quickRatio |-> Some(1),
     trailingPegRatio |-> Some(1)]

Returns(info) == [kind |-> "info", site |-> "info", info |-> info,
                  error |-> Exception(<<>>)]
Raises(site, e) == [kind |-> "raise", site |-> site, info |-> GoodInfo, error |-> e]

Resps ==
    { Returns(GoodInfo),
      Returns([GoodInfo EXCEPT !.quoteType = Some(<<"ETF">>)]),
      Returns([GoodInfo EXCEPT !.returnOnEquity = None, !.quickRatio = None]),
      Raises("info", Error(TRUE, Some(429), None, <<"Too Many Requests">>)),
      Raises("Ticker", Error(TRUE, Some(429), None, <<"Too Many Requests">>)),
      Raises("info", Error(TRUE, Some(503), None, <<"503 Server Error">>)),
      Raises("info", Error(FALSE, None, Some(500), <<"Internal Server Error">>)),
      Raises("info", Error(FALSE, None, None, <<"HTTP Error ", "4", "2", "9">>)) }

-----------------------------------------------------------------------------
(* The process *)

Header == <<"Ticker", "Active", "Last Updated", "Last Attempt", "Failures", "Error",
            "Status">>
BlacklistHeader == <<"Ticker", "Blacklist Date", "Error Message", "Failure Count">>

NoResults == [t \in {} |-> NoMetrics]

InitRow(ticker, failures) == <<ticker, "TRUE", "", "", failures, "", "pending">>

\* row r starts with 2 failures when r is odd and with none when it is even, so
\* that the order of the candidates differs from the order of the rows
InitFailures(r) == IF r % 2 = 1 THEN "2" ELSE "0"

TickerNames == <<"A", "B", "C", "D", "E", "F">>

\* the ticker columns told apart up to a renaming of the tickers: row r holds
\* one of the tickers of the rows above it, or the next new one
TickerColumns ==
    { t \in [1..MaxRows -> 1..MaxRows] :
        \A r \in 1..MaxRows :
            \/ t[r] = 1
            \/ \E q \in 1..(r - 1) : t[q] >= t[r] - 1 }

Init ==
    /\ \E t \in TickerColumns :
            sheet = <<Header>> \o [r \in 1..MaxRows |->
                                     InitRow(TickerNames[t[r]], InitFailures(r))]
    /\ blacklist = <<BlacklistHeader>>
    /\ now = Day + 1
    /\ pc = "Idle"
    /\ candidates = <<>>
    /\ i = 0
    /\ k = 1
    /\ successful_results = NoResults
    /\ failed_results = NoResults
    /\ hit_rate_limit = "unbound"
    /\ cycle = 1
    /\ fetchLog = <<>>
    /\ writeLog = <<>>
    /\ permanentBefore = {}
    /\ fetches = 0
    /\ batch_size \in {BatchSize - 1, BatchSize}
    /\ arg = None
    /\ ret = None

\* lines 305-308, and the entry of the first get_metrics_batch
Select ==
    /\ pc = "Idle"
    /\ candidates' = get_stocks_to_update(sheet, now)
    /\ pc' = IF candidates' = <<>> THEN "Done" ELSE "Fetching"
    /\ i' = 0
    /\ k' = 1
    /\ successful_results' = NoResults
    /\ failed_results' = NoResults
    /\ hit_rate_limit' = "unbound"
    /\ UNCHANGED <<sheet, blacklist, now, cycle, fetchLog, writeLog, permanentBefore,
                   fetches>>
    /\ UNCHANGED <<batch_size, arg, ret>>

\* one pass of the loop of get_metrics_batch (lines 219-300)
Fetch ==
    /\ pc = "Fetching"
    /\ k <= Len(Batch(candidates, i))
    /\ fetches < MaxFetches
    /\ fetches' = fetches + 1
    /\ \E resp \in Resps :
        LET stock == Batch(candidates, i)[k]
            r == FetchOne(resp)
        IN  /\ successful_results' =
                    IF r.out = "success"
                    THEN (stock.ticker :> r.metrics) @@ successful_results
                    ELSE successful_results
            /\ failed_results' =
                    IF r.out = "failed"
                    THEN (stock.ticker :> [error |-> r.error]) @@ failed_results
                    ELSE failed_results
            /\ hit_rate_limit' = IF r.out \in {"return", "break"} THEN "True"
                                 ELSE hit_rate_limit
            /\ pc' = IF r.out \in {"return", "break"} THEN "Writing" ELSE "Fetching"
            /\ k' = k + 1
            /\ fetchLog' = Append(fetchLog, [row |-> stock.rowIndex, ticker |-> stock.ticker,
                                             resp |-> resp, out |-> r.out,
                                             error |-> r.error])
    /\ UNCHANGED <<sheet, blacklist, now, candidates, i, cycle, writeLog, permanentBefore>>
    /\ UNCHANGED <<batch_size, arg, ret>>

\* line 302 after the loop ran to its end: hit_rate_limit was never assigned,
\* the read raises UnboundLocalError and the process ends with a traceback
ReturnBatch ==
    /\ pc = "Fetching"
    /\ k > Len(Batch(candidates, i))
    /\ pc' = IF hit_rate_limit = "unbound" THEN "Crashed" ELSE "Writing"
    /\ UNCHANGED <<sheet, blacklist, now, candidates, i, k, successful_results,
                   failed_results, hit_rate_limit, cycle, fetchLog, writeLog,
                   permanentBefore, fetches>>
    /\ UNCHANGED <<batch_size, arg, ret>>

\* lines 316-356 for the batch fetched
Flush ==
    /\ pc = "Writing"
    /\ LET batch == Batch(candidates, i)
           succ == SuccessfulUpdates(batch, successful_results)
           failed == FailedUpdates(batch, failed_results)
           black == BlacklistUpdates(failed)
           timestamp == strftime(now)
       IN  /\ sheet' = FlushSheet(sheet, succ, failed, black, timestamp)
           /\ blacklist' = FlushBlacklist(blacklist, black, timestamp)
           /\ writeLog' = writeLog \o WritesOf(sheet, succ, failed, black, timestamp)
    /\ IF hit_rate_limit = "True"
       THEN /\ pc' = "Aborted"
            /\ UNCHANGED <<i, k, successful_results, failed_results, hit_rate_limit>>
       ELSE /\ i' = i + batch_size
            /\ pc' = IF i' >= Len(candidates) THEN "Done" ELSE "Fetching"
            /\ k' = 1
            /\ successful_results' = NoResults
            /\ failed_results' = NoResults
            /\ hit_rate_limit' = "unbound"
    /\ UNCHANGED <<now, candidates, cycle, fetchLog, permanentBefore, fetches>>
    /\ UNCHANGED <<batch_size, arg, ret>>

\* history: the rows whose fetch in this run failed the eligibility validation
ValidationFailed(log) ==
    { log[j].row : j \in { n \in 1..Len(log) :
                            /\ log[n].out = "failed"
                            /\ log[n].resp.kind = "info"
                            /\ ~IsNone(Validate(log[n].resp.info)) } }

\* the process has ended; a later run of it starts (__main__)
NextRun ==
    /\ pc \in {"Done", "Aborted", "Crashed"}
    /\ cycle < MaxCycles
    /\ \E d \in {1, Day + 1} :
        /\ now + d <= MaxTime
        /\ now' = now + d
    /\ pc' = "Idle"
    /\ cycle' = cycle + 1
    /\ permanentBefore' = permanentBefore \cup ValidationFailed(fetchLog)
    /\ fetchLog' = <<>>
    /\ writeLog' = <<>>
    /\ candidates' = <<>>
    /\ i' = 0
    /\ k' = 1
    /\ successful_results' = NoResults
    /\ failed_results' = NoResults
    /\ hit_rate_limit' = "unbound"
    /\ UNCHANGED <<sheet, blacklist, fetches>>
    /\ UNCHANGED <<batch_size, arg, ret>>

Next == Select \/ Fetch \/ ReturnBatch \/ Flush \/ NextRun

Spec == Init /\ [][Next]_vars

-----------------------------------------------------------------------------
(* The selector alone, on a wide choice of sheets *)

SelRows ==
    { <<"A", "TRUE", "", "", f, "", "pending">> : f \in {"0", "1", "4", "5", "6"} }
    \cup { <<"A", "FALSE", "", "", f, "", "pending">> : f \in {"0", "1"} }
    \cup { <<"A", "false", "", "", "0", "", "pending">>,
           <<"A", "true", "", "", "", "", "pending">>,
           <<"A", "TRUE", strftime(Day), strftime(Day), "0", "", "complete">>,
           <<"A", "TRUE", strftime(0), strftime(0), "1", "", "complete">>,
           <<"A", "TRUE", "", strftime(0), " 3", "x", "failed">>,
           <<"A", "TRUE", "", "", "x", "", "pending">>,
           <<"A", "TRUE", "yesterday", "", "0", "", "complete">>,
           <<"A", "TRUE">>,
           \* last updated exactly a day ago, more than a day ago, less than a day ago
           <<"A", "TRUE", strftime(1), strftime(1), "0", "", "complete">>,
           <<"A", "TRUE", strftime(0), strftime(0), "4", "x", "failed">>,
           <<"A", "TRUE", strftime(Day), strftime(Day), "1", "", "pending">>,
           <<"A", "TRUE", " ", "", "0", "", "complete">>,
           <<"A", "FALSE", strftime(0), strftime(0), "0", "", "complete">>,
           <<"A", "TRUE", strftime(0), strftime(0), "5", "", "complete">>,
           <<"A", "yes", "", "", "0", "", "pending">>,
           \* the status cell emptied, a metric cell behind it
           <<"A", "TRUE", strftime(Day), strftime(Day), "0", "", "", "1">> }

InitSelect ==
    /\ \E n \in 0..MaxSelRows : \E rows \in [1..n -> SelRows] : sheet = <<Header>> \o rows
    /\ blacklist = <<BlacklistHeader>>
    /\ now = Day + 1
    /\ pc = "Idle"
    /\ candidates = <<>>
    /\ i = 0
    /\ k = 1
    /\ successful_results = NoResults
    /\ failed_results = NoResults
    /\ hit_rate_limit = "unbound"
    /\ cycle = 1
    /\ fetchLog = <<>>
    /\ writeLog = <<>>
    /\ permanentBefore = {}
    /\ fetches = 0
    /\ batch_size = BatchSize
    /\ arg = None
    /\ ret = None

SpecSelect == InitSelect /\ [][Select]_vars

-----------------------------------------------------------------------------
(* A method on its own: the object constructed, no cycle running *)

Constructed ==
    /\ sheet = <<Header>>
    /\ blacklist = <<BlacklistHeader>>
    /\ now = Day + 1
    /\ pc = "Idle"
    /\ candidates = <<>>
    /\ i = 0
    /\ k = 1
    /\ successful_results = NoResults
    /\ failed_results = NoResults
    /\ hit_rate_limit = "unbound"
    /\ cycle = 1
    /\ fetchLog = <<>>
    /\ writeLog = <<>>
    /\ permanentBefore = {}
    /\ fetches = 0
    /\ batch_size = BatchSize

cycleVars == <<sheet, blacklist, now, pc, candidates, i, k, successful_results,
               failed_results, hit_rate_limit, cycle, fetchLog, writeLog,
               permanentBefore, fetches, batch_size>>

(* should_blacklist and _check_rate_limit over exception objects *)

StatusCodes == {200, 400, 404, 429, 500, 502, 503, 504}

Texts ==
    { <<>>,
      <<"Missing required metrics: roe">>,
      <<"4", "2", "9">>,
      <<"HTTP Error ", "4", "2", "9", ": Too Many Requests">>,
      <<"4", "4", "2", "9">>,
      <<"4", "2">>,
      <<"4", "9", "2">>,
      <<"4", "2", " ", "9">>,
      <<"5", "0", "3", " Server Error">> }

\* exception objects: HTTPErrors with or without a response, other exceptions;
\* each with or without a status_code attribute of its own
Errors ==
    { Error(TRUE, response, status_code, text) :
        response \in {None} \cup { Some(c) : c \in StatusCodes },
        status_code \in {None} \cup { Some(c) : c \in StatusCodes },
        text \in Texts }
    \cup
    { Error(FALSE, None, status_code, text) :
        status_code \in {None} \cup { Some(c) : c \in StatusCodes },
        text \in Texts }

InitClassify ==
    /\ Constructed
    /\ arg \in Errors
    /\ ret = None

\* the two methods called on one exception object
Classify ==
    /\ IsNone(ret)
    /\ ret' = Some([rate_limit |-> _check_rate_limit(arg),
                    blacklist |-> should_blacklist(arg)])
    /\ UNCHANGED arg
    /\ UNCHANGED cycleVars

SpecClassify == InitClassify /\ [][Classify]_vars

(* The loop body of get_metrics_batch over the infos the provider can return *)

OptionalNumbers(ns) == {None} \cup { Some(n) : n \in ns }

Infos ==
    { [GoodInfo EXCEPT !.quoteType = qt,
                       !.freeCashflow = fcf, !.marketCap = cap,
                       !.currentPrice = p1, !.regularMarketPrice = p2,
                       !.previousClose = p3, !.open = p4, !.fiftyDayAverage = p5,
                       !.enterpriseToEbitda = ev, !.trailingPegRatio = peg] :
        qt \in {Some(<<"EQUITY">>), Some(<<"ETF">>)},
        fcf \in OptionalNumbers({0, 3}), cap \in OptionalNumbers({0, 7}),
        p1 \in OptionalNumbers({0, 2}), p2 \in OptionalNumbers({0, 3}),
        p3 \in OptionalNumbers({4}), p4 \in OptionalNumbers({5}),
        p5 \in OptionalNumbers({0, 6}),
        ev \in OptionalNumbers({0, 5}), peg \in OptionalNumbers({0, 1}) }

InitCalculate ==
    /\ Constructed
    /\ arg \in Infos
    /\ ret = None

\* lines 231-293 for one info: the metrics dict when the validation passes, and
\* what the pass of the loop makes of it
Calculate ==
    /\ IsNone(ret)
    /\ ret' = Some([metrics |-> IF IsNone(Validate(arg)) THEN ComputeMetrics(arg)
                                ELSE NoMetrics,
                    fetched |-> FetchOne(Returns(arg))])
    /\ UNCHANGED arg
    /\ UNCHANGED cycleVars

SpecCalculate == InitCalculate /\ [][Calculate]_vars

-----------------------------------------------------------------------------
(* What the sheet says of a record, read without the program's parser *)

TrueCells == {"TRUE", "True", "true"}
FalseCells == {"FALSE", "False", "false"}

\* the cells that hold a failures count of MaxFailures or more
ExhaustedCells == { ToString(n) : n \in MaxFailures..(MaxFailures + MaxCycles + 1) }

Selected == pc # "Idle"

CandidateRows == { candidates[j].rowIndex : j \in 1..Len(candidates) }

\* C6: the selector never returns a candidate for a record whose active flag is
\* false or whose failures count is 5 or more.
C6_NoInactiveNoExhausted ==
    Selected =>
        \A j \in 1..Len(candidates) :
            LET row == sheet[candidates[j].rowIndex]
            IN  /\ row[ColActive] \notin FalseCells
                /\ row[ColFailures] \notin ExhaustedCells

\* the sheet holds an inactive record and an exhausted one, and the selector
\* returned some candidates without them
C6_Witness ==
    /\ Selected
    /\ candidates # <<>>
    /\ \E r \in 2..Len(sheet) :
        /\ Len(sheet[r]) >= MinColumns
        /\ sheet[r][ColActive] \in FalseCells
        /\ r \notin CandidateRows
    /\ \E r \in 2..Len(sheet) :
        /\ Len(sheet[r]) >= MinColumns
        /\ sheet[r][ColActive] \in TrueCells
        /\ sheet[r][ColFailures] \in ExhaustedCells
        /\ r \notin CandidateRows

\* C7: the selector's output is in ascending order of failures, and candidates
\* with equal failures are in the order of their rows.
C7_SortedStable ==
    Selected =>
        \A a, b \in 1..Len(candidates) :
            a < b =>
                /\ candidates[a].failures <= candidates[b].failures
                /\ candidates[a].failures = candidates[b].failures
                     => candidates[a].rowIndex < candidates[b].rowIndex

\* three candidates: two with equal failures, and one that a row with more
\* failures preceded in the sheet
C7_Witness ==
    /\ Selected
    /\ Len(candidates) >= 3
    /\ \E a, b \in 1..Len(candidates) :
        a < b /\ candidates[a].failures = candidates[b].failures
    /\ \E a, b \in 1..Len(candidates) :
        a < b /\ candidates[a].rowIndex > candidates[b].rowIndex

-----------------------------------------------------------------------------
(* The refresh cycle *)

Terminal == pc \in {"Done", "Aborted", "Crashed"}

RateLimitedOuts == {"return", "break"}

Fetched == 1..Len(fetchLog)
Writes == 1..Len(writeLog)

\* the rows of the current batch that were not fetched
UnfetchedRows ==
    { Batch(candidates, i)[j].rowIndex : j \in 1..Len(Batch(candidates, i)) }
    \ { fetchLog[j].row : j \in Fetched }

\* the failures count a cell holds, an empty cell counting as 0
FailuresOf(cell) == IF cell = "" THEN 0 ELSE Val(int(cell))

\* the status code an error carries, 0 when it carries none
StatusOf(e) ==
    IF ~IsNone(e.response) THEN Val(e.response)
    ELSE IF ~IsNone(e.status_code) THEN Val(e.status_code)
    ELSE 0

\* C1: when the fetch of the k-th ticker of a batch is rate-limited, no later
\* ticker of the batch is fetched, the results of tickers 1..k-1 are written
\* (successes by the metrics write, failures by the failures write), the row of
\* the rate-limited ticker and the rows of the unfetched tickers receive no write
\* at all, and the cycle ends in Aborted.
C1_RateLimitLeavesTheRestUntouched ==
    \A j \in Fetched :
        fetchLog[j].out \in RateLimitedOuts =>
            /\ j = Len(fetchLog)
            /\ pc \in {"Writing", "Aborted"}
            /\ pc = "Aborted" =>
                /\ \A n \in 1..(j - 1) :
                    \E w \in Writes :
                        /\ writeLog[w].row = fetchLog[n].row
                        /\ writeLog[w].op = IF fetchLog[n].out = "success"
                                            THEN "metrics" ELSE "failures"
                /\ \A w \in Writes :
                    /\ writeLog[w].row # fetchLog[j].row
                    /\ writeLog[w].row \notin UnfetchedRows

\* C2: every cycle ends in Done or in Aborted and never in a crash; a cycle
\* with candidates and no rate-limited fetch ends in Done with every batch's
\* writes flushed.
C2_CycleEndsDoneOrAborted ==
    /\ pc \in {"Idle", "Fetching", "Writing", "Done", "Aborted"}
    /\ (Terminal /\ \A j \in Fetched : fetchLog[j].out \notin RateLimitedOuts)
         => /\ pc = "Done"
            /\ \A j \in Fetched : \E w \in Writes : writeLog[w].row = fetchLog[j].row

\* a fetch that failed with an error that carries 500, 502, 503 or 504
ServerErrorFetches ==
    { j \in Fetched :
        /\ fetchLog[j].out = "failed"
        /\ fetchLog[j].resp.kind = "raise"
        /\ StatusOf(fetchLog[j].resp.error) \in {500, 502, 503, 504} }

\* C3: a fetch that fails with status code 500, 502, 503 or 504 is Transient:
\* failures is written as previous+1 with status "failed", the active flag is
\* not set to false and no blacklist entry is appended for it.
C3_ServerErrorIsTransient ==
    Terminal =>
        \A j \in ServerErrorFetches :
            LET r == fetchLog[j].row
            IN  /\ \E w \in Writes :
                    /\ writeLog[w].op = "failures"
                    /\ writeLog[w].row = r
                    /\ writeLog[w].new = ToString(FailuresOf(writeLog[w].prev) + 1)
                /\ CellOf(sheet, r, ColStatus) = "failed"
                /\ CellOf(sheet, r, ColActive) \notin FalseCells
                /\ \A w \in Writes :
                    writeLog[w].row = r => writeLog[w].op \notin {"active", "blacklist"}

\* a fetch that failed the eligibility validation (an error with no status code)
ValidationFetches ==
    { j \in Fetched :
        /\ fetchLog[j].out = "failed"
        /\ fetchLog[j].resp.kind = "info"
        /\ ~IsNone(Validate(fetchLog[j].resp.info)) }

\* C4: a fetch that fails validation is Permanent: in the batch's flush failures
\* is written as previous+1 with status "failed" and the error message, active
\* is set to false, and exactly one blacklist entry for it, with that ticker
\* and that message, is appended.
C4_ValidationIsPermanent ==
    Terminal =>
        \A j \in ValidationFetches :
            LET r == fetchLog[j].row
                msg == StrCell(Val(Validate(fetchLog[j].resp.info)))
            IN  /\ \E w \in Writes :
                    /\ writeLog[w].op = "failures"
                    /\ writeLog[w].row = r
                    /\ writeLog[w].new = ToString(FailuresOf(writeLog[w].prev) + 1)
                /\ CellOf(sheet, r, ColStatus) = "failed"
                /\ CellOf(sheet, r, ColError) = msg
                /\ CellOf(sheet, r, ColActive) = "FALSE"
                /\ Cardinality({ w \in Writes :
                        writeLog[w].op = "blacklist" /\ writeLog[w].row = r }) = 1
                /\ \E n \in 1..Len(blacklist) :
                    /\ blacklist[n][1] = fetchLog[j].ticker
                    /\ blacklist[n][3] = msg

\* the metric fields that are null in what a fetch computed
NullFields(info) ==
    { required_metrics[m] : m \in { n \in 1..Len(required_metrics) :
                                      IsNone(ComputeMetrics(info)[required_metrics[n]]) } }

\* a fetch whose info is eligible and leaves some metric field null
IncompleteFetches ==
    { j \in Fetched :
        /\ fetchLog[j].resp.kind = "info"
        /\ IsNone(Validate(fetchLog[j].resp.info))
        /\ NullFields(fetchLog[j].resp.info) # {} }

\* C5: a record is written "complete" only if all eleven metric fields of its
\* fetch result are non-null; with a null field the fetch is a failure whose
\* message lists exactly the missing field names, and no metrics write is
\* issued for that record.
C5_CompleteOnlyWhenAllPresent ==
    \A j \in IncompleteFetches :
        /\ fetchLog[j].out = "failed"
        /\ { fetchLog[j].error[n] : n \in 2..Len(fetchLog[j].error) } \ {", "}
             = NullFields(fetchLog[j].resp.info)
        /\ \A w \in Writes :
            writeLog[w].row = fetchLog[j].row => writeLog[w].op # "metrics"

\* C8: for every candidate whose fetch succeeds, the metrics write sets the
\* record's failures to 0, error to "", status to "complete", lastUpdated and
\* lastAttempt to the current time and the eleven metric fields to the fetched
\* values.
C8_SuccessIsWritten ==
    Terminal =>
        \A j \in Fetched :
            fetchLog[j].out = "success" =>
                LET r == fetchLog[j].row
                    metrics == ComputeMetrics(fetchLog[j].resp.info)
                IN  /\ CellOf(sheet, r, ColLastUpdated) = strftime(now)
                    /\ CellOf(sheet, r, ColLastAttempt) = strftime(now)
                    /\ CellOf(sheet, r, ColFailures) = "0"
                    /\ CellOf(sheet, r, ColError) = ""
                    /\ CellOf(sheet, r, ColStatus) = "complete"
                    /\ \A m \in 1..Len(required_metrics) :
                        CellOf(sheet, r, ColStatus + m)
                            = ToString(Val(metrics[required_metrics[m]]))

\* C9: every write to a record's failures field sets it to the stored value
\* plus one (a failure) or to 0 (a successful metrics write).
C9_FailuresPlusOneOrZero ==
    \A w \in Writes :
        /\ writeLog[w].op = "failures"
             => writeLog[w].new = ToString(FailuresOf(writeLog[w].old) + 1)
        /\ writeLog[w].op = "metrics" => writeLog[w].new = "0"

\* C10: once a record has suffered a Permanent failure it is inactive after that
\* batch's flush, and in every later cycle it is never selected and never fetched.
C10_PermanentNeverRetried ==
    /\ \A j \in Fetched : fetchLog[j].row \notin permanentBefore
    /\ CandidateRows \cap permanentBefore = {}
    /\ pc \in {"Done", "Aborted"} =>
        \A j \in ValidationFetches : CellOf(sheet, fetchLog[j].row, ColActive) = "FALSE"

-----------------------------------------------------------------------------
(* The filter rule of the selector *)

BlankCells == {"", " "}
TimestampCells == { strftime(t) : t \in 0..MaxTime }
NumberCells == { ToString(n) : n \in -1..(MaxFailures + MaxCycles + 1) } \cup {" 3"}

\* a row with the minimum columns, a timestamp that parses or is absent, and a
\* failures count that parses or is absent
WellFormed(row) ==
    /\ Len(row) >= MinColumns
    /\ row[ColLastUpdated] \in BlankCells \cup TimestampCells
    /\ row[ColFailures] \in BlankCells \cup NumberCells

RowFailures(row) == IF row[ColFailures] \in BlankCells THEN 0 ELSE Val(int(row[ColFailures]))

\* lastUpdated is absent, or more than 24 hours before now
AbsentOrOlderThanADay(row) ==
    \/ row[ColLastUpdated] \in BlankCells
    \/ \E t \in 0..MaxTime : strftime(t) = row[ColLastUpdated] /\ now - t > Day

\* the filter rule with "status is pending" read from the cells in statuses
FilterRule(row, statuses) ==
    /\ row[ColActive] \in TrueCells
    /\ RowFailures(row) < MaxFailures
    /\ row[ColStatus] \in statuses \/ AbsentOrOlderThanADay(row)

SelectorFollows(statuses) ==
    Selected =>
        /\ pc \in {"Done", "Fetching"}
        /\ \A r \in 2..Len(sheet) :
            IF WellFormed(sheet[r])
            THEN r \in CandidateRows <=> FilterRule(sheet[r], statuses)
            ELSE r \notin CandidateRows

\* C11 as stated: a well-formed row is a candidate iff active is true, failures
\* < 5 and (status is pending, or lastUpdated is absent, or lastUpdated is more
\* than 24 hours before now); malformed rows are skipped without an error.
C11_FilterRuleAsStated == SelectorFollows({"pending"})

\* C11 as amended: the same, with an empty status cell counting as pending.
C11_FilterRule == SelectorFollows({"pending", ""})

\* a sheet with a well-formed row that is selected, a well-formed active row that
\* is not (it is not due), and a malformed row that is skipped
C11_Witness ==
    /\ Selected
    /\ \E r \in 2..Len(sheet) : WellFormed(sheet[r]) /\ r \in CandidateRows
    /\ \E r \in 2..Len(sheet) :
        /\ WellFormed(sheet[r])
        /\ sheet[r][ColActive] \in TrueCells
        /\ RowFailures(sheet[r]) < MaxFailures
        /\ r \notin CandidateRows
    /\ \E r \in 2..Len(sheet) : ~WellFormed(sheet[r]) /\ r \notin CandidateRows

-----------------------------------------------------------------------------
(* The rules of the Error Classifier *)

\* the textual representation contains "429"
Has429(text) ==
    \E pre, post \in 0..Len(text) :
        /\ pre + 3 + post = Len(text)
        /\ SubSeq(text, pre + 1, pre + 3) = <<"4", "2", "9">>

\* the class the four rules, applied in order, give an error
RuleClass(e) ==
    IF (e.isHTTPError /\ e.response = Some(429)) \/ Has429(e.text) THEN "RateLimited"
    ELSE IF \E c \in {429, 500, 502, 503, 504} : e.status_code = Some(c) THEN "Transient"
    ELSE IF e.status_code = None THEN "Permanent"
    ELSE "Permanent"

\* the class the two methods give: rate-limited, else blacklist or not
CodeClass(r) ==
    IF r.rate_limit /\ ~r.blacklist THEN "RateLimited"
    ELSE IF ~r.rate_limit /\ ~r.blacklist THEN "Transient"
    ELSE IF ~r.rate_limit /\ r.blacklist THEN "Permanent"
    ELSE "RateLimitedAndBlacklisted"

-----------------------------------------------------------------------------
(* A rate limit and the batches *)

RateLimitHit == \E j \in Fetched : fetchLog[j].out \in RateLimitedOuts

\* the rows of the candidates of the batches after the current one
LaterBatchRows ==
    { candidates[p].rowIndex : p \in (i + batch_size + 1)..Len(candidates) }

WrittenBy(op, row) == \E w \in Writes : writeLog[w].op = op /\ writeLog[w].row = row

\* C13: when a rate limit is hit in a batch, the writes of that batch (metrics,
\* failures, active flag, blacklist append) are issued before the cycle ends, no
\* ticker of a later batch is fetched, no write is issued for a later batch, and
\* the cycle ends with exit status 0 (Aborted).
C13_RateLimitFlushesThenExits ==
    RateLimitHit =>
        /\ pc \in {"Writing", "Aborted"}
        /\ \A j \in Fetched : fetchLog[j].row \notin LaterBatchRows
        /\ \A w \in Writes : writeLog[w].row \notin LaterBatchRows
        /\ pc = "Aborted" =>
            \A j \in Fetched :
                /\ fetchLog[j].out = "success" => WrittenBy("metrics", fetchLog[j].row)
                /\ fetchLog[j].out = "failed" => WrittenBy("failures", fetchLog[j].row)
                /\ j \in ValidationFetches =>
                    /\ WrittenBy("active", fetchLog[j].row)
                    /\ WrittenBy("blacklist", fetchLog[j].row)

\* a cycle ended by a rate limit in its first batch, after a success and a
\* validation failure were written, with a candidate of a later batch left
C13_Witness ==
    /\ pc = "Aborted"
    /\ RateLimitHit
    /\ LaterBatchRows # {}
    /\ \E j \in Fetched : fetchLog[j].out = "success" \/ j \in ValidationFetches
    /\ writeLog # <<>>

-----------------------------------------------------------------------------
(* A failure that is not a rate limit *)

\* C14: a fetch failure that is not RateLimited never stops the batch: the later
\* tickers of the batch are still fetched in order, the process does not crash,
\* and the failing row receives a failures write (and, when the failure is
\* Permanent, the active-flag write and the blacklist append) in the batch's flush.
C14_FailureIsRoutedToTheWrites ==
    \A j \in Fetched :
        fetchLog[j].out = "failed" =>
            /\ pc # "Crashed"
            /\ pc = "Fetching" => k = Len(fetchLog) + 1
            /\ \A n \in Fetched : fetchLog[n].row = Batch(candidates, i)[n].rowIndex
            /\ Terminal =>
                /\ WrittenBy("failures", fetchLog[j].row)
                /\ j \in ValidationFetches =>
                    /\ WrittenBy("active", fetchLog[j].row)
                    /\ WrittenBy("blacklist", fetchLog[j].row)

-----------------------------------------------------------------------------
(* The derived metrics *)

\* an info was put through the loop body and passed the eligibility validation
Calculated == arg \in Infos /\ ~IsNone(ret) /\ IsNone(Validate(arg))

Present(x) == x # None
PresentNonZero(x) == x # None /\ x # Some(0)

\* C15: for every provider response that passes the eligibility validation,
\* fcf_yield is non-null exactly when freeCashflow and marketCap are both present
\* and marketCap is not 0 (with freeCashflow = 0 it is 0), and null otherwise.
C15_FcfYieldWhenBothPresent ==
    Calculated =>
        LET fcf_yield == Val(ret).metrics.fcf_yield
        IN  /\ Present(fcf_yield) <=>
                    (Present(arg.freeCashflow) /\ PresentNonZero(arg.marketCap))
            /\ (arg.freeCashflow = Some(0) /\ PresentNonZero(arg.marketCap)) =>
                    \E d \in Int \ {0} : fcf_yield = Some(<<0, d>>)

\* the five price fields in the order of the fair-value computation
PriceFields(info) ==
    <<info.currentPrice, info.regularMarketPrice, info.previousClose, info.open,
      info.fiftyDayAverage>>

\* the first of xs that satisfies Ok(_), None when none does
FirstThat(xs, Ok(_)) ==
    IF \E n \in 1..Len(xs) : Ok(xs[n])
    THEN xs[CHOOSE n \in 1..Len(xs) : Ok(xs[n]) /\ \A m \in 1..(n - 1) : ~Ok(xs[m])]
    ELSE None

\* the quotients a[1]/a[2] and b[1]/b[2] are the same number
SameNumber(a, b) == a[1] * b[2] = b[1] * a[2]

\* price * (15 / ev_ebitda)
EvEbitdaImplied(price, ev) == <<15 * price, ev>>

\* 0.6 * price * (15 / ev_ebitda) + 0.4 * price * (2 / peg)
PegBlend(price, ev, peg) == <<6 * 15 * price * peg + 4 * 2 * price * ev, 10 * ev * peg>>

\* the fair value rule for an info whose price is the given one
FairValueRule(price) ==
    Calculated =>
        LET fair_value == Val(ret).metrics.fair_value
            ev == arg.enterpriseToEbitda
            peg == arg.trailingPegRatio
        IN  /\ IsNone(fair_value) <=> ~(PresentNonZero(price) /\ PresentNonZero(ev))
            /\ (PresentNonZero(price) /\ PresentNonZero(ev)) =>
                    IF PresentNonZero(peg)
                    THEN SameNumber(Val(fair_value), PegBlend(Val(price), Val(ev), Val(peg)))
                    ELSE SameNumber(Val(fair_value), EvEbitdaImplied(Val(price), Val(ev)))

\* C16 as stated: price is the first non-null of currentPrice, regularMarketPrice,
\* previousClose, open, fiftyDayAverage (a present 0 is chosen); fair_value is null
\* exactly when price or ev_ebitda is missing or zero; otherwise it is the PEG
\* blend when the PEG ratio is present and non-zero, else the EV/EBITDA-implied
\* value alone.
C16_FairValueOfFirstPresentPrice == FairValueRule(FirstThat(PriceFields(arg), Present))

\* C16 as amended: the same with price the first of the five fields that is
\* present and not 0.
C16_FairValueOfFirstNonZeroPrice ==
    FairValueRule(FirstThat(PriceFields(arg), PresentNonZero))

\* an eligible info whose currentPrice is 0 and whose regularMarketPrice is not:
\* the fair value is computed, from the regularMarketPrice
C16_Witness ==
    /\ Calculated
    /\ arg.currentPrice = Some(0)
    /\ arg.regularMarketPrice = Some(3)
    /\ PresentNonZero(arg.enterpriseToEbitda)
    /\ PresentNonZero(arg.trailingPegRatio)
    /\ ~IsNone(Val(ret).metrics.fair_value)

-----------------------------------------------------------------------------
(* What the failures write touches *)

FirstMetricColumn == ColStatus + 1
LastMetricColumn == ColStatus + Len(required_metrics)

Cell(row, col) == IF col <= Len(row) THEN row[col] ELSE ""

\* C17: the failures write changes only lastAttempt, failures, error and status
\* of the failed candidate's row: lastUpdated, the active flag and the eleven
\* metric cells (and the ticker) are after the write what they were before it.
C17_FailuresWriteLeavesTheRest ==
    \A w \in Writes :
        writeLog[w].op = "failures" =>
            LET before == writeLog[w].before
                after == writeLog[w].after
            IN  /\ Cell(after, ColTicker) = Cell(before, ColTicker)
                /\ Cell(after, ColActive) = Cell(before, ColActive)
                /\ Cell(after, ColLastUpdated) = Cell(before, ColLastUpdated)
                /\ \A c \in FirstMetricColumn..LastMetricColumn :
                        Cell(after, c) = Cell(before, c)
                /\ Len(after) <= Max(Len(before), LastMetricColumn)
                /\ Cell(after, ColLastAttempt) = strftime(now)
                /\ Cell(after, ColStatus) = "failed"

\* a failures write on a row that held a lastUpdated value and metrics
C17_Witness ==
    \E w \in Writes :
        /\ writeLog[w].op = "failures"
        /\ Cell(writeLog[w].before, ColLastUpdated) # ""
        /\ Cell(writeLog[w].before, FirstMetricColumn) # ""
        /\ Cell(writeLog[w].after, ColLastUpdated) # strftime(now)
        /\ Cell(writeLog[w].after, ColLastUpdated) # ""

-----------------------------------------------------------------------------
(* The blacklist log *)

IsBlacklistWrite(w) == w.op = "blacklist"

\* the blacklist appends a step adds to the write history, in the order issued
NewBlacklistWrites ==
    IF Len(writeLog') > Len(writeLog)
    THEN SelectSeq(SubSeq(writeLog', Len(writeLog) + 1, Len(writeLog')), IsBlacklistWrite)
    ELSE <<>>

\* the position of a row among the candidates
PositionOf(row) == CHOOSE p \in 1..Len(candidates) : candidates[p].rowIndex = row

\* C18: the blacklist log is append-only over all batches and cycles: an append
\* writes its entries at the rows right after the existing ones, one row per
\* entry and in batch order; no entry written before is overwritten, changed or
\* removed, and the log after any step has the log before it as a prefix.
C18_BlacklistAppendOnly ==
    [][ /\ Len(blacklist') = Len(blacklist) + Len(NewBlacklistWrites)
        /\ SubSeq(blacklist', 1, Len(blacklist)) = blacklist
        /\ \A j \in 1..Len(NewBlacklistWrites) :
            /\ Len(blacklist'[Len(blacklist) + j]) = Len(BlacklistHeader)
            /\ blacklist'[Len(blacklist) + j][1] = sheet[NewBlacklistWrites[j].row][ColTicker]
            /\ \A n \in 1..(j - 1) :
                PositionOf(NewBlacklistWrites[n].row) < PositionOf(NewBlacklistWrites[j].row)
      ]_vars

\* a second cycle has appended to a log that held an entry of the first cycle
C18_Witness ==
    /\ cycle > 1
    /\ \E w \in Writes : writeLog[w].op = "blacklist"
    /\ Len(blacklist) > 1 + Cardinality({ w \in Writes : writeLog[w].op = "blacklist" })

-----------------------------------------------------------------------------
(* Results and the rows they are written to *)

FetchedAs(out, row) == \E j \in Fetched : fetchLog[j].row = row /\ fetchLog[j].out = out

\* C19: in a batch flush a candidate row receives a metrics write only if its
\* own fetch in this batch succeeded and a failures write only if its own fetch
\* in this batch failed, and no row receives both; also when two candidate rows
\* of the batch carry the same ticker and when a rate limit cut the batch short.
C19_WritesFollowTheRowsOwnFetch ==
    \A w \in Writes :
        /\ writeLog[w].op = "metrics" => FetchedAs("success", writeLog[w].row)
        /\ writeLog[w].op = "failures" => FetchedAs("failed", writeLog[w].row)
        /\ ~(WrittenBy("metrics", writeLog[w].row) /\ WrittenBy("failures", writeLog[w].row))

-----------------------------------------------------------------------------
(* The failure count of a blacklist entry *)

ColFailureCount == Len(BlacklistHeader)

\* the blacklist appends of the current cycle, in the order issued; their
\* entries are the last rows of the log
BlacklistWrites == SelectSeq(writeLog, IsBlacklistWrite)

EntryOf(j) == blacklist[Len(blacklist) - Len(BlacklistWrites) + j]

\* the failures write of the current cycle to a row
FailuresWriteTo(row) ==
    writeLog[CHOOSE w \in Writes : writeLog[w].op = "failures" /\ writeLog[w].row = row]

\* C20: for every Permanent failure the failure count of the appended blacklist
\* entry is the candidate's failures value as read at the start of the cycle, one
\* less than the failures value that the failures write of the batch writes to
\* the same record.
C20_EntryCountsFailuresBefore ==
    \A j \in 1..Len(BlacklistWrites) :
        LET row == BlacklistWrites[j].row
            count == Val(int(EntryOf(j)[ColFailureCount]))
        IN  /\ EntryOf(j)[ColTicker] = sheet[row][ColTicker]
            /\ count = candidates[PositionOf(row)].failures
            /\ WrittenBy("failures", row)
            /\ count = Val(int(FailuresWriteTo(row).new)) - 1
            /\ count = Val(int(Cell(FailuresWriteTo(row).after, ColFailures))) - 1

\* an entry appended for a candidate that had failed before and whose own fetch
\* failed the validation: its count is not 0
C20_Witness ==
    \E j \in 1..Len(BlacklistWrites) :
        /\ candidates[PositionOf(BlacklistWrites[j].row)].failures > 0
        /\ Val(int(EntryOf(j)[ColFailureCount])) > 0
        /\ \E f \in ValidationFetches : fetchLog[f].row = BlacklistWrites[j].row

====
